---- MODULE Spec2Model ----
(***************************************************************************)
(* Secured resource delivery: stream(ctx, type) of the glacier routes.     *)
(* One request is followed from validateRequest to the hand-off to         *)
(* streamFile; requests run one after the other, since stream() keeps no   *)
(* state between requests besides what it reads from the metadata store.   *)
(***************************************************************************)
EXTENDS Integers, Sequences, FiniteSets, TLC

(* ------------------------------------------------------------------ *)
(* Bounds of the model                                                 *)
(* ------------------------------------------------------------------ *)

\* longest `id` path parameter, in characters
MaxLen == 2

\* characters an `id` path parameter is made of: a digit, a sign, a
\* decimal point and a letter that belongs to no numeric literal
Alphabet == {"1", "-", ".", "a"}

\* ids that may have a row in the Export / Thumbnail tables
StoreIds == {1}

\* largest magnitude of an id handed to generatePath on its own
MaxId == 12

\* signals delivered to the process, and connections open at a time
MaxSignals == 3
MaxConns == 3

(* ------------------------------------------------------------------ *)
(* JavaScript values                                                   *)
(* ------------------------------------------------------------------ *)

\* the `undefined` of an optional string (mime, filename, query value)
Undefined == "undefined"

\* a number is [nan |-> FALSE, n |-> Int]; NaN is the one number without a value
Num(n) == [nan |-> FALSE, n |-> n]
NaN == [nan |-> TRUE]

\* the null/undefined result of first() and of getTypeMeta's default branch
Null == [null |-> TRUE]

DigitChars == <<"0", "1", "2", "3", "4", "5", "6", "7", "8", "9">>
Digits == {DigitChars[i] : i \in 1..10}
DigitVal(c) == (CHOOSE i \in 1..10 : DigitChars[i] = c) - 1

AllDigits(s) == \A i \in 1..Len(s) : s[i] \in Digits

\* StrUnsignedDecimalLiteral of ToNumber, without exponent and Infinity:
\*   DecimalDigits | DecimalDigits . DecimalDigits? | . DecimalDigits
IsUnsignedDecimal(s) ==
  \E k \in 0..Len(s) :
    LET int == SubSeq(s, 1, k)
        rest == SubSeq(s, k + 1, Len(s))
    IN /\ AllDigits(int)
       /\ \/ (k > 0 /\ rest = <<>>)
          \/ /\ Len(rest) > 0
             /\ rest[1] = "."
             /\ AllDigits(Tail(rest))
             /\ (k > 0 \/ Len(rest) > 1)

\* Number(s) is a number: the empty string (0) or an optionally signed
\* StrDecimalLiteral
IsStrNumericLiteral(s) ==
  \/ s = <<>>
  \/ IsUnsignedDecimal(s)
  \/ (Len(s) > 0 /\ s[1] \in {"-", "+"} /\ IsUnsignedDecimal(Tail(s)))

\* isNaN(ctx.params.id): the parameter is coerced with ToNumber
isNaN(s) == ~IsStrNumericLiteral(s)

\* length of the longest prefix of s made of digits
RECURSIVE DigitPrefixLen(_)
DigitPrefixLen(s) ==
  IF s = <<>> \/ Head(s) \notin Digits THEN 0 ELSE 1 + DigitPrefixLen(Tail(s))

RECURSIVE DigitsValue(_, _)
DigitsValue(s, acc) ==
  IF s = <<>> THEN acc ELSE DigitsValue(Tail(s), 10 * acc + DigitVal(Head(s)))

\* parseInt(s, 10): an optional sign, then the longest run of digits;
\* NaN when there is no digit there
parseInt(s) ==
  LET signed == Len(s) > 0 /\ s[1] \in {"-", "+"}
      body == IF signed THEN Tail(s) ELSE s
      k == DigitPrefixLen(body)
      v == DigitsValue(SubSeq(body, 1, k), 0)
  IN IF k = 0 THEN NaN
     ELSE IF signed /\ s[1] = "-" THEN Num(0 - v) ELSE Num(v)

RECURSIVE NatToString(_)
NatToString(n) ==
  IF n < 10 THEN <<DigitChars[n + 1]>>
  ELSE NatToString(n \div 10) \o <<DigitChars[(n % 10) + 1]>>

\* Number.prototype.toString(): the decimal form of an integer, "NaN" for NaN
toString(x) ==
  IF x.nan THEN <<"N", "a", "N">>
  ELSE IF x.n < 0 THEN <<"-">> \o NatToString(0 - x.n)
  ELSE NatToString(x.n)

(* ------------------------------------------------------------------ *)
(* Resource types and their policy tables                              *)
(* ------------------------------------------------------------------ *)

EXPORT == 0
THUMBNAIL == 1
\* a value of `type` outside the enum (the enum is erased at run time)
UNKNOWN_TYPE == THUMBNAIL + 1

Types == {EXPORT, THUMBNAIL, UNKNOWN_TYPE}

\* the table with the two requirements swapped
AUTH_REQUIRED_Swapped == [t \in {EXPORT, THUMBNAIL} |-> t = THUMBNAIL]

AUTH_REQUIRED == [t \in {EXPORT, THUMBNAIL} |-> t = EXPORT]

CACHE_DURATION == [t \in {EXPORT, THUMBNAIL} |-> IF t = EXPORT THEN 0 ELSE 600]

HTTP_BAD_REQUEST == 400
HTTP_UNAUTHORIZED == 401
HTTP_NOT_FOUND == 404

\* Config.get("glacier").path and Config.get("glacier").auth.download.secret
ROOT == "/glacier"
SECRET == "secret"

(* ------------------------------------------------------------------ *)
(* The world a request runs in, and the requests                       *)
(* ------------------------------------------------------------------ *)

ExportRows ==
  {[filename |-> "film.mp4", mime |-> "video/mp4", filmId |-> f] : f \in {7, 8}}

\* the mime column of a thumbnail may hold no value
ThumbnailRows == {[mime |-> m, filmId |-> 7] : m \in {"image/jpeg", Undefined}}

\* the Export and Thumbnail tables: each stored id has a row or none
Stores ==
  {[t \in {EXPORT, THUMBNAIL} |-> IF t = EXPORT THEN e ELSE th] :
     e \in [StoreIds -> ExportRows \cup {Null}],
     th \in [StoreIds -> ThumbnailRows \cup {Null}]}

\* the `authorisation` query value: absent, repeated (an array), a string
\* that is no token, or a token signed with `key` that carries resourceId
Tokens ==
  {[t |-> "undefined"], [t |-> "object"], [t |-> "string", jwt |-> FALSE]}
  \cup {[t |-> "string", jwt |-> TRUE, key |-> k, resourceId |-> r] :
          k \in {SECRET, "other"}, r \in {7, 8}}

\* the `download` query value: absent, or present (with an empty value)
Downloads == {Undefined, ""}

IdParams == UNION {[1..n -> Alphabet] : n \in 1..MaxLen}

\* verifyJwt(token, secret): the claims of a well-formed token signed with
\* `secret`, and nothing for any other string
verifyJwt(token, secret) ==
  IF token.jwt /\ token.key = secret
  THEN [resourceId |-> token.resourceId]
  ELSE Null

(* ------------------------------------------------------------------ *)
(* The functions of the delivery pipeline                              *)
(* ------------------------------------------------------------------ *)

\* validateRequest(ctx, type): null after answering 400, a thrown error,
\* or the parsed id with the type's authorisation requirement
validateRequest(idParam, t) ==
  IF isNaN(idParam)
  THEN [kind |-> "null",
        standard |-> [code |-> HTTP_BAD_REQUEST, message |-> "\"id\" must be a number"]]
  ELSE IF t \notin DOMAIN AUTH_REQUIRED
  THEN [kind |-> "throw", error |-> "Could not find authorisation requirement for type"]
  ELSE [kind |-> "ok", id |-> parseInt(idParam), authRequired |-> AUTH_REQUIRED[t]]

\* findById(id).first() on one table
findById(table, x) ==
  IF ~x.nan /\ x.n \in DOMAIN table THEN table[x.n] ELSE Null

\* getTypeMeta(type, id): the selected columns of the row, or nothing
getTypeMeta(store, t, x) ==
  IF t = EXPORT THEN findById(store[EXPORT], x)
  ELSE IF t = THUMBNAIL
  THEN LET row == findById(store[THUMBNAIL], x)
       IN IF row = Null THEN Null ELSE [mime |-> row.mime, filmId |-> row.filmId]
  ELSE Null

\* a field of the destructured typeMeta: undefined when the row lacks it
Field(row, name) == IF name \in DOMAIN row THEN row[name] ELSE Undefined

\* verifyAuth with `authorised` starting out true: only a token that fails
\* a check would clear it
verifyAuth_DefaultTrue(q, t, filmId) ==
  IF t = EXPORT
  THEN LET token == q.authorisation
       IN IF token.t = "string"
          THEN LET payload == verifyJwt(token, SECRET)
               IN IF payload # Null THEN payload.resourceId = filmId ELSE FALSE
          ELSE TRUE
  ELSE TRUE

\* verifyAuth without the comparison of resourceId with filmId
verifyAuth_AnyResource(q, t, filmId) ==
  IF t = EXPORT
  THEN LET token == q.authorisation
       IN IF token.t = "string"
          THEN verifyJwt(token, SECRET) # Null
          ELSE FALSE
  ELSE FALSE

\* verifyAuth with the comparison of resourceId and filmId inverted
verifyAuth_Inverted(q, t, filmId) ==
  IF t = EXPORT
  THEN LET token == q.authorisation
       IN IF token.t = "string"
          THEN LET payload == verifyJwt(token, SECRET)
               IN IF payload # Null THEN payload.resourceId # filmId ELSE FALSE
          ELSE FALSE
  ELSE FALSE

\* verifyAuth(ctx, type, filmId): whether the request is authorised
verifyAuth(q, t, filmId) ==
  IF t = EXPORT
  THEN LET token == q.authorisation
       IN IF token.t = "string"
          THEN LET payload == verifyJwt(token, SECRET)
               IN IF payload # Null THEN payload.resourceId = filmId ELSE FALSE
          ELSE FALSE
  ELSE FALSE

\* generatePath keyed by filmId where the id belongs
generatePath_ByFilm(t, x, filmId) ==
  IF t = EXPORT THEN [threw |-> FALSE, path |-> <<ROOT, "exports", toString(Num(filmId))>>]
  ELSE IF t = THUMBNAIL THEN [threw |-> FALSE, path |-> <<ROOT, "thumbs", toString(x)>>]
  ELSE [threw |-> TRUE,
        logged |-> [msg |-> "Failed to generate path", filmId |-> filmId, id |-> x, type |-> t],
        error |-> "Failed to generate glacier content path"]

\* generatePath(type, id, filmId): the path on disk, or the logged error
generatePath(t, x, filmId) ==
  IF t = EXPORT THEN [threw |-> FALSE, path |-> <<ROOT, "exports", toString(x)>>]
  ELSE IF t = THUMBNAIL THEN [threw |-> FALSE, path |-> <<ROOT, "thumbs", toString(x)>>]
  ELSE [threw |-> TRUE,
        logged |-> [msg |-> "Failed to generate path", filmId |-> filmId, id |-> x, type |-> t],
        error |-> "Failed to generate glacier content path"]

\* ctx.cache: unset, or the number assigned to it
Unset == [set |-> FALSE]
CacheOf(n) == [set |-> TRUE, value |-> n]

\* applyCacheDuration testing the duration for truth instead of for being defined
applyCacheDuration_Truthy(c, t) ==
  IF t \in DOMAIN CACHE_DURATION /\ CACHE_DURATION[t] # 0
  THEN CacheOf(CACHE_DURATION[t])
  ELSE c

\* applyCacheDuration(ctx, type): ctx.cache afterwards
applyCacheDuration(c, t) ==
  IF t \in DOMAIN CACHE_DURATION THEN CacheOf(CACHE_DURATION[t]) ELSE c

\* the download flag tested for truth: `?download` carries the empty string
shouldDownload_Truthy(q) == q.download \notin {Undefined, ""}

\* typeof ctx.query.download !== "undefined"
shouldDownload(q) == q.download # Undefined

\* streamFile(ctx, path, mime, filename): the response it writes when the
\* file is there, and the failure it reports when it is not
NoResponse == [written |-> FALSE]
streamFile(files, args) ==
  IF args.path \in files
  THEN [written |-> TRUE, outcome |-> "Completed", status |-> 200, type |-> args.mime,
        disposition |-> IF args.filename = Undefined THEN "inline" ELSE "attachment",
        attachment |-> args.filename]
  ELSE [written |-> TRUE, outcome |-> "IOFailure"]

\* the files that may lie under the storage root
StoredPaths ==
  {generatePath(t, Num(i), 0).path : t \in {EXPORT, THUMBNAIL}, i \in StoreIds}

(* ------------------------------------------------------------------ *)
(* State                                                               *)
(* ------------------------------------------------------------------ *)

VARIABLES
  db,            \* the Export and Thumbnail tables
  storage,       \* the paths that hold a file
  params_id,     \* ctx.params.id
  type,          \* the `type` argument of stream()
  query,         \* ctx.query: authorisation, download
  pc,            \* the statement of stream() the request is at
  id,            \* validatedRequest.id
  authRequired,  \* validatedRequest.authRequired
  typeMeta,      \* the row returned by getTypeMeta
  path,          \* the result of generatePath
  cache,         \* ctx.cache
  sent,          \* the ctx.standard(...) calls made, in order
  streamArgs,    \* the arguments streamFile was called with
  response,      \* the response streamFile wrote
  thrown,        \* the error thrown out of stream()
  log,           \* the logger.error entries
  calls,         \* the functions stream() has called, in order
  first          \* the outcome of the first issue of a request issued twice

VARIABLES
  pathA,         \* a call of generatePath: its arguments and its result
  pathB          \* another call of generatePath

VARIABLES
  shutdown,      \* the function the variable `shutdown` holds
  listeners,     \* the function process.on registered for each signal
  runs,          \* the invocations of the shutdown function, in order
  server,        \* the HTTP server returned by app.listen
  conns,         \* the connections the server is serving
  poolEnds,      \* the number of pool.end() calls made
  exited         \* process.exit(0) has been called

streamVars == <<db, storage, params_id, type, query, pc, id, authRequired, typeMeta,
                path, cache, sent, streamArgs, response, thrown, log, calls, first>>

pathVars == <<pathA, pathB>>

shutdownVars == <<shutdown, listeners, runs, server, conns, poolEnds, exited>>

vars == <<streamVars, pathVars, shutdownVars>>

\* what the steps of stream() leave alone
others == <<pathVars, shutdownVars>>

\* no call of generatePath on its own has been made
NoCall == [called |-> FALSE]
NoPathCalls == pathA = NoCall /\ pathB = NoCall

Signals == {"SIGTERM", "SIGINT"}

\* the process after start-up: the server listens, `shutdown` holds the
\* graceful function and both signals are bound to it
Started ==
  /\ shutdown = "graceful"
  /\ listeners = [sig \in Signals |-> "graceful"]
  /\ runs = <<>>
  /\ server = "listening"
  /\ conns = 0
  /\ poolEnds = 0
  /\ exited = FALSE

world == <<db, storage>>
request == <<params_id, type, query>>

NoError == "none"
NoOutcome == [issued |-> FALSE]
NoArgs == [called |-> FALSE]
NoPath == <<>>

\* what the client got from the request
Outcome ==
  [issued |-> TRUE, sent |-> sent, args |-> streamArgs, response |-> response,
   thrown |-> thrown]

Init ==
  /\ db \in Stores
  /\ storage \in SUBSET StoredPaths
  /\ params_id \in IdParams
  /\ type \in Types
  /\ query \in [authorisation : Tokens, download : Downloads]
  /\ pc = "validateRequest"
  /\ id = NaN
  /\ authRequired = FALSE
  /\ typeMeta = Null
  /\ path = NoPath
  /\ cache = Unset
  /\ sent = <<>>
  /\ streamArgs = NoArgs
  /\ response = NoResponse
  /\ thrown = NoError
  /\ log = <<>>
  /\ calls = <<>>
  /\ first = NoOutcome
  /\ NoPathCalls
  /\ Started

(* ------------------------------------------------------------------ *)
(* stream(): one action per stage                                      *)
(* ------------------------------------------------------------------ *)

\* const validatedRequest = validateRequest(ctx, type); if null, return
ValidateRequest ==
  /\ pc = "validateRequest"
  /\ calls' = Append(calls, "validateRequest")
  /\ LET r == validateRequest(params_id, type)
     IN IF r.kind = "null"
        THEN /\ sent' = Append(sent, r.standard)
             /\ pc' = "done"
             /\ UNCHANGED <<id, authRequired, thrown>>
        ELSE IF r.kind = "throw"
        THEN /\ thrown' = r.error
             /\ pc' = "done"
             /\ UNCHANGED <<id, authRequired, sent>>
        ELSE /\ id' = r.id
             /\ authRequired' = r.authRequired
             /\ pc' = "getTypeMeta"
             /\ UNCHANGED <<sent, thrown>>
  /\ UNCHANGED <<world, request, typeMeta, path, cache, streamArgs, response, log, first>>
  /\ UNCHANGED others

\* the lookup made of two queries: one for existence, one for the columns
GetTypeMeta_Twice ==
  /\ pc = "getTypeMeta"
  /\ calls' = calls \o <<"getTypeMeta", "getTypeMeta">>
  /\ LET meta == getTypeMeta(db, type, id)
     IN IF meta = Null
        THEN /\ sent' = Append(sent, [code |-> HTTP_NOT_FOUND, message |-> Undefined])
             /\ pc' = "done"
             /\ UNCHANGED <<typeMeta, thrown>>
        ELSE /\ typeMeta' = meta
             /\ pc' = IF authRequired THEN "verifyAuth" ELSE "generatePath"
             /\ UNCHANGED <<sent, thrown>>
  /\ UNCHANGED <<world, request, id, authRequired, path, cache, streamArgs, response, log, first>>
  /\ UNCHANGED others

\* the lookup with the authorisation checked before the existence of the row
GetTypeMeta_AuthFirst ==
  /\ pc = "getTypeMeta"
  /\ calls' = Append(calls, "getTypeMeta")
  /\ LET meta == getTypeMeta(db, type, id)
     IN IF authRequired /\ (meta = Null \/ ~verifyAuth(query, type, meta.filmId))
        THEN /\ sent' = Append(sent, [code |-> HTTP_UNAUTHORIZED, message |-> Undefined])
             /\ pc' = "done"
             /\ UNCHANGED <<typeMeta, thrown>>
        ELSE IF meta = Null
        THEN /\ sent' = Append(sent, [code |-> HTTP_NOT_FOUND, message |-> Undefined])
             /\ pc' = "done"
             /\ UNCHANGED <<typeMeta, thrown>>
        ELSE /\ typeMeta' = meta
             /\ pc' = "generatePath"
             /\ UNCHANGED <<sent, thrown>>
  /\ UNCHANGED <<world, request, id, authRequired, path, cache, streamArgs, response, log, first>>
  /\ UNCHANGED others

\* const typeMeta = await getTypeMeta(type, id); 404 when there is none.
\* What the query does with a NaN id is the database driver's: it finds
\* no row, or the query fails.
GetTypeMeta ==
  /\ pc = "getTypeMeta"
  /\ calls' = Append(calls, "getTypeMeta")
  /\ \E fails \in IF id.nan THEN BOOLEAN ELSE {FALSE} :
       IF fails
       THEN /\ thrown' = "query failed"
            /\ pc' = "done"
            /\ UNCHANGED <<typeMeta, sent>>
       ELSE LET meta == getTypeMeta(db, type, id)
            IN IF meta = Null
               THEN /\ sent' = Append(sent, [code |-> HTTP_NOT_FOUND, message |-> Undefined])
                    /\ pc' = "done"
                    /\ UNCHANGED <<typeMeta, thrown>>
               ELSE /\ typeMeta' = meta
                    /\ pc' = IF authRequired THEN "verifyAuth" ELSE "generatePath"
                    /\ UNCHANGED <<sent, thrown>>
  /\ UNCHANGED <<world, request, id, authRequired, path, cache, streamArgs, response, log, first>>
  /\ UNCHANGED others

\* the authorisation check telling the client why a token was refused
VerifyAuth_Detailed ==
  /\ pc = "verifyAuth"
  /\ calls' = Append(calls, "verifyAuth")
  /\ IF verifyAuth(query, type, typeMeta.filmId)
     THEN /\ pc' = "generatePath"
          /\ UNCHANGED sent
     ELSE /\ sent' = Append(sent, [code |-> HTTP_UNAUTHORIZED,
                                   message |-> IF query.authorisation.t = "string"
                                               THEN "invalid token"
                                               ELSE Undefined])
          /\ pc' = "done"
  /\ UNCHANGED <<world, request, id, authRequired, typeMeta, path, cache, streamArgs,
                 response, thrown, log, first>>
  /\ UNCHANGED others

\* the authorisation check without the return after a refusal
VerifyAuth_NoReturn ==
  /\ pc = "verifyAuth"
  /\ calls' = Append(calls, "verifyAuth")
  /\ IF verifyAuth(query, type, typeMeta.filmId)
     THEN UNCHANGED sent
     ELSE sent' = Append(sent, [code |-> HTTP_UNAUTHORIZED, message |-> Undefined])
  /\ pc' = "generatePath"
  /\ UNCHANGED <<world, request, id, authRequired, typeMeta, path, cache, streamArgs,
                 response, thrown, log, first>>
  /\ UNCHANGED others

\* if (authRequired) { authorised = await verifyAuth(...); if (!authorised) return }
VerifyAuth ==
  /\ pc = "verifyAuth"
  /\ calls' = Append(calls, "verifyAuth")
  /\ IF verifyAuth(query, type, typeMeta.filmId)
     THEN /\ pc' = "generatePath"
          /\ UNCHANGED sent
     ELSE /\ sent' = Append(sent, [code |-> HTTP_UNAUTHORIZED, message |-> Undefined])
          /\ pc' = "done"
  /\ UNCHANGED <<world, request, id, authRequired, typeMeta, path, cache, streamArgs,
                 response, thrown, log, first>>
  /\ UNCHANGED others

\* the path computed and the file streamed without the cache duration
GeneratePath_SkipCache ==
  /\ pc = "generatePath"
  /\ calls' = Append(calls, "generatePath")
  /\ LET r == generatePath(type, id, typeMeta.filmId)
     IN IF r.threw
        THEN /\ log' = Append(log, r.logged)
             /\ thrown' = r.error
             /\ pc' = "done"
             /\ UNCHANGED path
        ELSE /\ path' = r.path
             /\ pc' = "streamFile"
             /\ UNCHANGED <<log, thrown>>
  /\ UNCHANGED <<world, request, id, authRequired, typeMeta, cache, sent, streamArgs,
                 response, first>>
  /\ UNCHANGED others

\* const path = generatePath(type, id, filmId)
GeneratePath ==
  /\ pc = "generatePath"
  /\ calls' = Append(calls, "generatePath")
  /\ LET r == generatePath(type, id, typeMeta.filmId)
     IN IF r.threw
        THEN /\ log' = Append(log, r.logged)
             /\ thrown' = r.error
             /\ pc' = "done"
             /\ UNCHANGED path
        ELSE /\ path' = r.path
             /\ pc' = "applyCacheDuration"
             /\ UNCHANGED <<log, thrown>>
  /\ UNCHANGED <<world, request, id, authRequired, typeMeta, cache, sent, streamArgs,
                 response, first>>
  /\ UNCHANGED others

\* applyCacheDuration(ctx, type)
ApplyCacheDuration ==
  /\ pc = "applyCacheDuration"
  /\ calls' = Append(calls, "applyCacheDuration")
  /\ cache' = applyCacheDuration(cache, type)
  /\ pc' = "streamFile"
  /\ UNCHANGED <<world, request, id, authRequired, typeMeta, path, sent, streamArgs,
                 response, thrown, log, first>>
  /\ UNCHANGED others

\* the hand-off that also removes the file once it is served
StreamFile_SingleUse ==
  /\ pc = "streamFile"
  /\ calls' = Append(calls, "streamFile")
  /\ LET args == [called |-> TRUE,
                  path |-> path,
                  mime |-> Field(typeMeta, "mime"),
                  filename |-> IF shouldDownload(query)
                               THEN Field(typeMeta, "filename")
                               ELSE Undefined]
     IN /\ streamArgs' = args
        /\ response' = streamFile(storage, args)
  /\ storage' = storage \ {path}
  /\ pc' = "done"
  /\ UNCHANGED <<db, request, id, authRequired, typeMeta, path, cache, sent,
                 thrown, log, first>>
  /\ UNCHANGED others

\* return streamFile(ctx, path, mime, shouldDownload ? filename : void 0)
StreamFile ==
  /\ pc = "streamFile"
  /\ calls' = Append(calls, "streamFile")
  /\ LET args == [called |-> TRUE,
                  path |-> path,
                  mime |-> Field(typeMeta, "mime"),
                  filename |-> IF shouldDownload(query)
                               THEN Field(typeMeta, "filename")
                               ELSE Undefined]
     IN /\ streamArgs' = args
        /\ response' = streamFile(storage, args)
  /\ pc' = "done"
  /\ UNCHANGED <<world, request, id, authRequired, typeMeta, path, cache, sent,
                 thrown, log, first>>
  /\ UNCHANGED others

\* the client issues the same request a second time
Reissue ==
  /\ pc = "done"
  /\ first = NoOutcome
  /\ first' = Outcome
  /\ pc' = "validateRequest"
  /\ id' = NaN
  /\ authRequired' = FALSE
  /\ typeMeta' = Null
  /\ path' = NoPath
  /\ cache' = Unset
  /\ sent' = <<>>
  /\ streamArgs' = NoArgs
  /\ response' = NoResponse
  /\ thrown' = NoError
  /\ log' = <<>>
  /\ calls' = <<>>
  /\ UNCHANGED <<world, request>>
  /\ UNCHANGED others

Next ==
  \/ ValidateRequest
  \/ GetTypeMeta
  \/ VerifyAuth
  \/ GeneratePath
  \/ ApplyCacheDuration
  \/ StreamFile
  \/ Reissue

Spec == Init /\ [][Next]_vars

\* no request is being served
StreamIdle ==
  /\ db = [t \in {EXPORT, THUMBNAIL} |-> [i \in StoreIds |-> Null]]
  /\ storage = {}
  /\ params_id = <<"1">>
  /\ type = EXPORT
  /\ query = [authorisation |-> [t |-> "undefined"], download |-> Undefined]
  /\ pc = "idle"
  /\ id = NaN
  /\ authRequired = FALSE
  /\ typeMeta = Null
  /\ path = NoPath
  /\ cache = Unset
  /\ sent = <<>>
  /\ streamArgs = NoArgs
  /\ response = NoResponse
  /\ thrown = NoError
  /\ log = <<>>
  /\ calls = <<>>
  /\ first = NoOutcome

(* ------------------------------------------------------------------ *)
(* generatePath on its own: two calls with arguments of any kind       *)
(* ------------------------------------------------------------------ *)

PathIds == {Num(n) : n \in (0 - MaxId)..MaxId}
FilmIds == {7, 8}

PathCall(t, x, f) ==
  [called |-> TRUE, type |-> t, id |-> x, filmId |-> f, result |-> generatePath(t, x, f)]

GeneratePathA ==
  /\ pathA = NoCall
  /\ \E t \in Types, x \in PathIds, f \in FilmIds : pathA' = PathCall(t, x, f)
  /\ UNCHANGED <<pathB, streamVars, shutdownVars>>

GeneratePathB ==
  /\ pathB = NoCall
  /\ \E t \in Types, x \in PathIds, f \in FilmIds : pathB' = PathCall(t, x, f)
  /\ UNCHANGED <<pathA, streamVars, shutdownVars>>

InitPath == StreamIdle /\ NoPathCalls /\ Started

NextPath == GeneratePathA \/ GeneratePathB

SpecPath == InitPath /\ [][NextPath]_vars

(* ------------------------------------------------------------------ *)
(* Graceful shutdown: the SIGTERM and SIGINT listeners                 *)
(* ------------------------------------------------------------------ *)

\* promisify(server.close): a function is made of server.close and is
\* not called; awaiting it leaves the server as it is and resumes in the
\* same turn of the event loop
promisify(srv) == srv

\* A signal arrives and the function registered for it runs: it assigns
\* the empty function to `shutdown`, awaits promisify(server.close) and
\* calls pool.end(). The listeners keep the function they were given.
Signal ==
  /\ ~exited
  /\ Len(runs) < MaxSignals
  /\ \E sig \in Signals :
       IF listeners[sig] = "graceful"
       THEN /\ shutdown' = "noop"
            /\ server' = promisify(server)
            /\ poolEnds' = poolEnds + 1
            /\ runs' = Append(runs, [signal |-> sig, at |-> "pool.end"])
       ELSE UNCHANGED <<shutdown, server, poolEnds, runs>>
  /\ UNCHANGED <<listeners, conns, exited, streamVars, pathVars>>

\* await pool.end() returns: ok("Server stopped successfully", exit)
PoolEndResolves ==
  /\ ~exited
  /\ \E i \in 1..Len(runs) :
       /\ runs[i].at = "pool.end"
       /\ runs' = [runs EXCEPT ![i].at = "stopped"]
  /\ exited' = TRUE
  /\ UNCHANGED <<shutdown, listeners, server, conns, poolEnds, streamVars, pathVars>>

\* await pool.end() throws in an invocation that ended the pool again
PoolEndRejects ==
  /\ ~exited
  /\ \E i \in 2..Len(runs) :
       /\ runs[i].at = "pool.end"
       /\ runs' = [runs EXCEPT ![i].at = "failed"]
  /\ UNCHANGED <<shutdown, listeners, server, conns, poolEnds, exited, streamVars, pathVars>>

\* the listening server accepts a connection
Accept ==
  /\ ~exited
  /\ server = "listening"
  /\ conns < MaxConns
  /\ conns' = conns + 1
  /\ UNCHANGED <<shutdown, listeners, runs, server, poolEnds, exited, streamVars, pathVars>>

\* a connection is served and closes
Finish ==
  /\ ~exited
  /\ conns > 0
  /\ conns' = conns - 1
  /\ UNCHANGED <<shutdown, listeners, runs, server, poolEnds, exited, streamVars, pathVars>>

InitShutdown == StreamIdle /\ NoPathCalls /\ Started

NextShutdown ==
  \/ Signal
  \/ PoolEndResolves
  \/ PoolEndRejects
  \/ Accept
  \/ Finish

SpecShutdown == InitShutdown /\ [][NextShutdown]_vars

(* ------------------------------------------------------------------ *)
(* Vocabulary of the properties                                        *)
(* ------------------------------------------------------------------ *)

Called(f) == \E i \in 1..Len(calls) : calls[i] = f

Done == pc = "done"

Answered(code) == Len(sent) = 1 /\ sent[1].code = code

\* the id passes validateRequest and parses to an integer
ValidId == ~isNaN(params_id) /\ ~parseInt(params_id).nan

\* the table of the request's kind holds a row for the request's id
HasRecord ==
  /\ type \in DOMAIN db
  /\ ValidId
  /\ parseInt(params_id).n \in DOMAIN db[type]
  /\ db[type][parseInt(params_id).n] # Null

Record == db[type][parseInt(params_id).n]

NoToken == query.authorisation.t # "string"

\* the token is well formed and signed with the configured secret
SignedToken ==
  /\ query.authorisation.t = "string"
  /\ query.authorisation.jwt
  /\ query.authorisation.key = SECRET

(* ------------------------------------------------------------------ *)
(* C1                                                                  *)
(* ------------------------------------------------------------------ *)

\* C1 as stated: every Export request without a string `authorisation`
\* ends in 401, and never runs generatePath, applyCacheDuration or
\* streamFile. Fails: such a request with a non-numeric id ends in 400, and
\* one whose id has no record ends in 404.
C1_NoTokenAlways401 ==
  (type = EXPORT /\ NoToken) =>
     /\ ~Called("generatePath")
     /\ ~Called("applyCacheDuration")
     /\ ~Called("streamFile")
     /\ (Done => Answered(HTTP_UNAUTHORIZED))

\* C1, amended: an Export request without a string `authorisation` never
\* runs generatePath, applyCacheDuration or streamFile, and ends in 401
\* whenever its id passes validation and has a metadata record.
C1_NoTokenNeverStreams ==
  (type = EXPORT /\ NoToken) =>
     /\ ~Called("generatePath")
     /\ ~Called("applyCacheDuration")
     /\ ~Called("streamFile")
     /\ ~streamArgs.called
     /\ ((Done /\ HasRecord) => Answered(HTTP_UNAUTHORIZED))

C1_Witness ==
  /\ Done
  /\ type = EXPORT
  /\ query.authorisation.t = "undefined"
  /\ HasRecord
  /\ Called("verifyAuth")
  /\ Answered(HTTP_UNAUTHORIZED)

(* ------------------------------------------------------------------ *)
(* C2                                                                  *)
(* ------------------------------------------------------------------ *)

\* C2: an Export request reaches streamFile only with a token signed with
\* the configured secret whose resourceId is the filmId of the record; a
\* signed token with another resourceId ends in 401.
C2_StreamOnlyIfBound ==
  type = EXPORT =>
     /\ (Called("streamFile") \/ pc = "streamFile") =>
           /\ HasRecord
           /\ SignedToken
           /\ query.authorisation.resourceId = Record.filmId
     /\ (Done /\ HasRecord /\ SignedToken
           /\ query.authorisation.resourceId # Record.filmId) =>
           /\ Answered(HTTP_UNAUTHORIZED)
           /\ ~streamArgs.called

C2_Witness ==
  /\ Done
  /\ type = EXPORT
  /\ HasRecord
  /\ SignedToken
  /\ query.authorisation.resourceId # Record.filmId
  /\ Answered(HTTP_UNAUTHORIZED)

(* ------------------------------------------------------------------ *)
(* C3                                                                  *)
(* ------------------------------------------------------------------ *)

\* C3: an Export request with a valid id and a record, carrying a token
\* signed with the secret whose resourceId is the record's filmId, sends
\* no 401 and reaches streamFile.
C3_BoundTokenStreams ==
  (type = EXPORT /\ HasRecord /\ SignedToken
     /\ query.authorisation.resourceId = Record.filmId) =>
     /\ sent = <<>>
     /\ Done => (streamArgs.called /\ Called("streamFile"))

C3_Witness ==
  /\ Done
  /\ type = EXPORT
  /\ HasRecord
  /\ SignedToken
  /\ query.authorisation.resourceId = Record.filmId
  /\ Called("verifyAuth")
  /\ streamArgs.called

(* ------------------------------------------------------------------ *)
(* C4                                                                  *)
(* ------------------------------------------------------------------ *)

\* the `id` parameter is a run of digits: a non-negative integer
NonNegativeInteger(s) == Len(s) > 0 /\ AllDigits(s)

\* C4 as stated: every id that is not a non-negative integer is answered
\* 400 without a lookup, so every id that reaches getTypeMeta is a
\* non-negative integer. Fails: "-1" passes isNaN and is looked up as -1,
\* ".1" passes isNaN and is looked up as NaN.
C4_OnlyNonNegativeIdsLookedUp ==
  type \in {EXPORT, THUMBNAIL} =>
     /\ Called("getTypeMeta") => (~id.nan /\ id.n >= 0)
     /\ (~NonNegativeInteger(params_id)) =>
           /\ ~Called("getTypeMeta")
           /\ Done => Answered(HTTP_BAD_REQUEST)

(* ------------------------------------------------------------------ *)
(* C5                                                                  *)
(* ------------------------------------------------------------------ *)

\* C5: an Export or Thumbnail request whose id passes validation and has
\* no record ends in 404 whatever its token; verifyAuth is not called and
\* no 401 is sent.
C5_NoRecordIs404 ==
  (type \in {EXPORT, THUMBNAIL} /\ ValidId /\ ~HasRecord) =>
     /\ ~Called("verifyAuth")
     /\ \A i \in 1..Len(sent) : sent[i].code # HTTP_UNAUTHORIZED
     /\ Done => (Answered(HTTP_NOT_FOUND) /\ ~streamArgs.called)

C5_Witness ==
  /\ Done
  /\ type = EXPORT
  /\ ValidId
  /\ ~HasRecord
  /\ NoToken
  /\ Called("getTypeMeta")
  /\ Answered(HTTP_NOT_FOUND)

(* ------------------------------------------------------------------ *)
(* C6                                                                  *)
(* ------------------------------------------------------------------ *)

\* C6: a Thumbnail request never calls verifyAuth and never sends 401; with
\* a valid id and a record it reaches streamFile whatever its token.
C6_ThumbnailNeedsNoToken ==
  type = THUMBNAIL =>
     /\ ~Called("verifyAuth")
     /\ pc # "verifyAuth"
     /\ \A i \in 1..Len(sent) : sent[i].code # HTTP_UNAUTHORIZED
     /\ (Done /\ HasRecord) => (sent = <<>> /\ streamArgs.called)

C6_Witness ==
  /\ Done
  /\ type = THUMBNAIL
  /\ HasRecord
  /\ query.authorisation.t = "undefined"
  /\ streamArgs.called

(* ------------------------------------------------------------------ *)
(* C7                                                                  *)
(* ------------------------------------------------------------------ *)

C8_AttachmentName ==
  streamArgs.called =>
     /\ (query.download # Undefined /\ "filename" \in DOMAIN Record) =>
           streamArgs.filename = Record.filename
     /\ query.download = Undefined => streamArgs.filename = Undefined

C8_Witness ==
  /\ streamArgs.called
  /\ query.download = ""
  /\ streamArgs.filename = "film.mp4"

(* ------------------------------------------------------------------ *)
(* C9                                                                  *)
(* ------------------------------------------------------------------ *)

\* the stage that answers with a status code
StageOf(code) ==
  IF code = HTTP_BAD_REQUEST THEN "validateRequest"
  ELSE IF code = HTTP_NOT_FOUND THEN "getTypeMeta"
  ELSE IF code = HTTP_UNAUTHORIZED THEN "verifyAuth"
  ELSE "none"

\* C9: a request produces at most one of a 400, a 404, a 401 and the call
\* of streamFile; once a status is sent the request is over, and the stage
\* that sent it is the last one that ran.
C9_OneOutcome ==
  /\ Len(sent) + (IF streamArgs.called THEN 1 ELSE 0) <= 1
  /\ sent # <<>> =>
        /\ Done
        /\ calls # <<>>
        /\ calls[Len(calls)] = StageOf(sent[1].code)
        /\ path = NoPath
        /\ cache = Unset

C9_Witness ==
  /\ calls = <<"validateRequest", "getTypeMeta", "verifyAuth">>
  /\ Len(sent) = 1
  /\ sent[1].code = HTTP_UNAUTHORIZED
  /\ pc = "done"

(* ------------------------------------------------------------------ *)
(* C10                                                                 *)
(* ------------------------------------------------------------------ *)

\* C10: no step of a request changes the metadata store or the file
\* storage, and a request issued a second time gets the outcome of the
\* first: the same status, MIME type and attachment. (A request whose id
\* parses to NaN is left out: what its lookup does is the driver's.)
C10_Idempotent ==
  /\ [][db' = db /\ storage' = storage]_vars
  /\ []((Done /\ first.issued /\ (isNaN(params_id) \/ ValidId)) => Outcome = first)

C10_Witness ==
  /\ Done
  /\ first.issued
  /\ first.response.written
  /\ response.written
  /\ response.outcome = "Completed"
  /\ response.disposition = "attachment"

(* ------------------------------------------------------------------ *)
(* C11                                                                 *)
(* ------------------------------------------------------------------ *)

\* the three ways an Export request with a record is refused
RefusedNoToken == NoToken

RefusedBadToken ==
  /\ query.authorisation.t = "string"
  /\ ~(query.authorisation.jwt /\ query.authorisation.key = SECRET)

RefusedOtherResource ==
  SignedToken /\ query.authorisation.resourceId # Record.filmId

\* C11: an Export request refused for a missing token, for a token that
\* fails verification or for a resourceId other than filmId gets the same
\* response each time: one 401 without a message, nothing streamed, no
\* cache setting, nothing thrown or logged.
C11_RefusalsAlike ==
  (Done /\ type = EXPORT /\ HasRecord
     /\ (RefusedNoToken \/ RefusedBadToken \/ RefusedOtherResource)) =>
     /\ sent = <<[code |-> HTTP_UNAUTHORIZED, message |-> Undefined]>>
     /\ streamArgs = NoArgs
     /\ response = NoResponse
     /\ cache = Unset
     /\ thrown = NoError
     /\ log = <<>>

C11_Witness ==
  /\ Done
  /\ type = EXPORT
  /\ HasRecord
  /\ RefusedBadToken
  /\ query.authorisation.jwt
  /\ Len(sent) = 1
  /\ sent[1].message = Undefined

(* ------------------------------------------------------------------ *)
(* C12                                                                 *)
(* ------------------------------------------------------------------ *)

\* C12 as stated: a request that ends in a thrown error has a log entry
\* with its kind, id and filmId. Fails: for a kind outside the enum
\* validateRequest throws without logging, before generatePath (the one
\* place that logs) can be reached.
C12_FaultsAreLogged ==
  (thrown # NoError /\ type \notin {EXPORT, THUMBNAIL}) =>
     \E i \in 1..Len(log) :
        /\ log[i].type = type
        /\ {"id", "filmId"} \subseteq DOMAIN log[i]

(* ------------------------------------------------------------------ *)
(* C13                                                                 *)
(* ------------------------------------------------------------------ *)

Count(f) == Cardinality({i \in 1..Len(calls) : calls[i] = f})

\* the position of the first call of f
Index(f) == CHOOSE i \in 1..Len(calls) : calls[i] = f

PassesValidation == ~isNaN(params_id) /\ type \in {EXPORT, THUMBNAIL}

\* C14: a request that passes validation makes exactly one lookup, a
\* request that does not makes none, and verifyAuth starts only after the
\* lookup has returned a record.
C14_OneLookupBeforeAuth ==
  /\ Count("getTypeMeta") <= 1
  /\ (Done /\ PassesValidation) => Count("getTypeMeta") = 1
  /\ ~PassesValidation => Count("getTypeMeta") = 0
  /\ (pc = "verifyAuth" \/ Called("verifyAuth")) =>
        /\ typeMeta # Null
        /\ Called("getTypeMeta")
        /\ Called("verifyAuth") => Index("getTypeMeta") < Index("verifyAuth")

C14_Witness ==
  /\ Done
  /\ Count("getTypeMeta") = 1
  /\ Count("verifyAuth") = 1
  /\ sent = <<>>

(* ------------------------------------------------------------------ *)
(* C15                                                                 *)
(* ------------------------------------------------------------------ *)

\* s is the decimal form of an integer: an optional minus sign and digits
\* without a leading zero
IsDecimal(s) ==
  LET digits == IF Len(s) > 0 /\ s[1] = "-" THEN Tail(s) ELSE s
  IN /\ Len(digits) > 0
     /\ AllDigits(digits)
     /\ (Len(digits) > 1 => digits[1] # "0")

\* the directory of a kind
DirOf(t) == IF t = EXPORT THEN "exports" ELSE "thumbs"

\* the call went to one of the two kinds, and returned this path form
WellFormedPath(c) ==
  /\ ~c.result.threw
  /\ Len(c.result.path) = 3
  /\ c.result.path[1] = ROOT
  /\ c.result.path[2] = DirOf(c.type)
  /\ IsDecimal(c.result.path[3])
  /\ parseInt(c.result.path[3]) = c.id

\* C15: generatePath maps an Export id to <root>/exports/<decimal id> and a
\* Thumbnail id to <root>/thumbs/<decimal id>; two calls return the same
\* path only for the same kind and id, and the same kind and id give the
\* same path whatever the filmId.
C15_PathInjective ==
  /\ \A c \in {pathA, pathB} :
        (c.called /\ c.type \in {EXPORT, THUMBNAIL}) => WellFormedPath(c)
  /\ (pathA.called /\ pathB.called
        /\ ~pathA.result.threw /\ ~pathB.result.threw) =>
        /\ pathA.result.path = pathB.result.path =>
              (pathA.type = pathB.type /\ pathA.id = pathB.id)
        /\ (pathA.type = pathB.type /\ pathA.id = pathB.id) =>
              pathA.result = pathB.result

C15_Witness ==
  /\ pathA.called
  /\ pathB.called
  /\ pathA.type = THUMBNAIL
  /\ pathA.id.n < -9
  /\ pathA.filmId # pathB.filmId
  /\ ~pathA.result.threw
  /\ ~pathB.result.threw
  /\ pathA.result.path = pathB.result.path

(* ------------------------------------------------------------------ *)
(* C16                                                                 *)
(* ------------------------------------------------------------------ *)

\* C16 as stated: the shutdown sequence runs at most once and pool.end is
\* called at most once, however many signals arrive. Fails: process.on was
\* given the function itself, so assigning the empty function to `shutdown`
\* stops nothing, and a second signal runs the sequence again.
C16_ShutdownOnce ==
  /\ Len(runs) <= 1
  /\ poolEnds <= 1

(* ------------------------------------------------------------------ *)
(* C17                                                                 *)
(* ------------------------------------------------------------------ *)

\* C17 as stated: pool.end is called only once the server has closed and
\* serves no connection. Fails: promisify(server.close) is never called,
\* so the server is still listening when the pool is ended.
C17_ServerClosedBeforePoolEnd ==
  poolEnds > 0 => (server = "closed" /\ conns = 0)

====
